---- MODULE Spec2Model ----
(***************************************************************************)
(* Concurrent hash set: the four strategies of skeleton/src                *)
(* (HashSetSequential, HashSetCoarseGrained, HashSetStriped,               *)
(* HashSetRefinable) as one state machine.  The strategy and the           *)
(* constructor's capacity are chosen in Init; every thread then runs       *)
(* Add / Remove / Contains / Size calls, one shared-memory access per      *)
(* step.  Bucket i of the C++ table is table[i + 1].                       *)
(***************************************************************************)
EXTENDS Integers, Sequences, FiniteSets, TLC

\* ---------------------------------------------------------------- bounds
NThreads == 2
NElems == 2
MaxPreload == 8
ScenarioAdds == 20
StripedAdds == 11
RefinableAdds == 10
RaceThreads == 3

\* ------------------------------------------------------ program constants
LoadFactorThreshold == 4

Threads == 1..(IF RaceThreads > NThreads THEN RaceThreads ELSE NThreads)
Elems == 0..(NElems - 1)
Strategies == {"sequential", "coarse", "striped", "refinable"}
Ops == {"Add", "Remove", "Contains", "Size"}
NoThread == 0

VARIABLES
  strategy,          \* which of the four classes this instance is
  table,             \* table_
  size,              \* size_
  capacity,          \* capacity_ (striped, refinable); 0 where the class has none
  num_of_locks,      \* num_of_locks_ (striped); 0 elsewhere
  mutex,             \* mutex_ (coarse): the holder, or NoThread
  locks,             \* locks_ (striped, refinable): holder of each mutex
  resizing_flag,     \* resizing_flag_ (refinable)
  locks_list_lock,   \* locks_list_lock_ (refinable): [readers, writer]
  th,                \* per thread: position and locals of the call it runs
  abs,               \* history: [set] the set the calls that took effect describe,
                     \* [won] elements whose last successful call is an Add,
                     \* [twice] elements two Adds won with no Remove between
  load,              \* the callers' script: the constructor's capacity [initial],
                     \* the fresh elements base+1 .. base+total to add, of which
                     \* [done] were passed to Add; [free]: any call may follow;
                     \* [callers]: threads 1 .. callers make calls
  ub                 \* an out-of-range table_/locks_ access has happened

vars == <<strategy, table, size, capacity, num_of_locks, mutex, locks,
          resizing_flag, locks_list_lock, th, abs, load, ub>>

shared == <<table, size, capacity, mutex, locks, resizing_flag, locks_list_lock>>

\* ------------------------------------------------------------ pure helpers
Hash(e) == e

InList(list, e) == \E k \in 1..Len(list) : list[k] = e

FindOrPushBackListAlways(list, e) == Append(list, e)

\* FindOrPushBack: the list afterwards, and the value returned
FindOrPushBackList(list, e) == IF InList(list, e) THEN list ELSE Append(list, e)

FindOrPushBackResult(list, e) == ~InList(list, e)

FirstIndex(list, e) == CHOOSE k \in 1..Len(list) :
                          list[k] = e /\ \A j \in 1..(k - 1) : list[j] # e

FindAndErasePopBack(list, e) ==
  IF InList(list, e) THEN SubSeq(list, 1, Len(list) - 1) ELSE list

\* FindAndErase: the list afterwards (first match erased), and the value returned
FindAndEraseList(list, e) ==
  IF InList(list, e)
  THEN LET k == FirstIndex(list, e)
       IN  SubSeq(list, 1, k - 1) \o SubSeq(list, k + 1, Len(list))
  ELSE list

FindAndEraseResult(list, e) == InList(list, e)

FindFrontOnly(list, e) == Len(list) > 0 /\ list[1] = e

\* std::find(list.begin(), list.end(), elem) != list.end()
Find(list, e) == InList(list, e)

EmptyTable(n) == [k \in 1..n |-> <<>>]

RECURSIVE Flatten(_)
Flatten(tbl) == IF tbl = <<>> THEN <<>> ELSE Head(tbl) \o Flatten(Tail(tbl))

RECURSIVE ReinsertAllButLast(_, _, _)
ReinsertAllButLast(tbl, elems, cap) ==
  IF Len(elems) <= 1 THEN tbl
  ELSE ReinsertAllButLast([tbl EXCEPT ![(Hash(Head(elems)) % cap) + 1] = Append(@, Head(elems))],
                          Tail(elems), cap)

RECURSIVE ReinsertOldIndex(_, _, _)
ReinsertOldIndex(tbl, elems, cap) ==
  IF elems = <<>> THEN tbl
  ELSE ReinsertOldIndex([tbl EXCEPT ![(Hash(Head(elems)) % (cap \div 2)) + 1] =
                                       Append(@, Head(elems))],
                        Tail(elems), cap)

\* the reinsertion loop of resize(): push_back every element, in order, into
\* bucket hash % new capacity
RECURSIVE Reinsert(_, _, _)
Reinsert(tbl, elems, cap) ==
  IF elems = <<>> THEN tbl
  ELSE Reinsert([tbl EXCEPT ![(Hash(Head(elems)) % cap) + 1] = Append(@, Head(elems))],
                Tail(elems), cap)

\* resize(): a table of double the capacity with every element reinserted
Rehash(old, new_cap) == Reinsert(EmptyTable(new_cap), Flatten(old), new_cap)

PolicyAtCapacity(sz, cap) == sz >= cap

PolicyInclusive(sz, cap) == (sz \div cap) >= LoadFactorThreshold

\* policy(): size_ / capacity > 4
Policy(sz, cap) == (sz \div cap) > LoadFactorThreshold

\* ------------------------------------------------------------ thread state
NoSnap == [valid |-> FALSE]

IdleThread ==
  [pc |-> "idle", op |-> "none", elem |-> 0, current_capacity |-> 0,
   bucket_idx |-> 0, lock |-> 0, result |-> FALSE, size_ret |-> 0,
   old_table |-> <<>>, new_capacity |-> 0, i |-> 0,
   lin |-> FALSE, alone |-> FALSE, pre |-> NoSnap, old_size |-> 0,
   lost |-> FALSE]    \* history: this call lost the resize compare-and-set

InFlight(t) == th[t].pc \notin {"idle", "done"}

Quiescent == \A t \in Threads : ~InFlight(t)

Snapshot == [valid |-> TRUE, table |-> table, size |-> size,
             cap |-> IF strategy \in {"striped", "refinable"} THEN capacity ELSE Len(table)]

\* ------------------------------------------------------------ construction
Construct(s, c) ==
  /\ strategy = s
  /\ table = EmptyTable(c)
  /\ size = 0
  /\ capacity = IF s \in {"striped", "refinable"} THEN c ELSE 0
  /\ num_of_locks = IF s = "striped" THEN c ELSE 0
  /\ mutex = NoThread
  /\ locks = IF s \in {"striped", "refinable"} THEN [k \in 1..c |-> NoThread] ELSE <<>>
  /\ resizing_flag = FALSE
  /\ locks_list_lock = [readers |-> {}, writer |-> NoThread]
  /\ th = [t \in Threads |-> IdleThread]
  /\ abs = [set |-> {}, won |-> {}, twice |-> {}]
  /\ ub = FALSE

\* capacity, elements loaded by thread 1 before the free phase
Configs == {<<1, 0>>, <<1, 3>>, <<2, MaxPreload>>}

Init ==
  \E s \in Strategies, cfg \in Configs :
    /\ Construct(s, cfg[1])
    /\ load = [initial |-> cfg[1], base |-> NElems - 1, done |-> 0, total |-> cfg[2],
               free |-> TRUE, callers |-> NThreads]

InitScenario ==
  \E s \in Strategies :
    /\ Construct(s, 4)
    /\ load = [initial |-> 4, base |-> 0, done |-> 0, total |-> ScenarioAdds,
               free |-> FALSE, callers |-> NThreads]

InitStripedAdds ==
  /\ Construct("striped", 2)
  /\ load = [initial |-> 2, base |-> 0, done |-> 0, total |-> StripedAdds,
             free |-> FALSE, callers |-> NThreads]

InitRefinable ==
  /\ Construct("refinable", 1)
  /\ load = [initial |-> 1, base |-> NElems - 1, done |-> 0, total |-> 3,
             free |-> TRUE, callers |-> NThreads]

\* the same set and script, with one more caller
InitRefinableRace ==
  /\ Construct("refinable", 1)
  /\ load = [initial |-> 1, base |-> 0, done |-> 0, total |-> RefinableAdds,
             free |-> FALSE, callers |-> RaceThreads]

InitRefinableAdds ==
  /\ Construct("refinable", 1)
  /\ load = [initial |-> 1, base |-> 0, done |-> 0, total |-> RefinableAdds,
             free |-> FALSE, callers |-> NThreads]

\* ------------------------------------------------------------- the callers
Begin(t, o, e) ==
  LET others == \A u \in Threads \ {t} : ~InFlight(u)
  IN  th' = [u \in Threads |->
               IF u = t
               THEN [IdleThread EXCEPT !.pc = "start", !.op = o, !.elem = e,
                                       !.alone = others,
                                       !.pre = IF others THEN Snapshot ELSE NoSnap]
               ELSE IF th[u].pc = "idle" THEN th[u]
               ELSE [th[u] EXCEPT !.alone = FALSE, !.pre = NoSnap]]

CanCall(t) ==
  /\ t <= load.callers
  /\ th[t].pc = "idle"
  /\ strategy = "sequential" => \A u \in Threads : th[u].pc = "idle"

\* a caller adds the next fresh element
InvokeLoad(t) ==
  /\ load.done < load.total
  /\ CanCall(t)
  /\ Begin(t, "Add", load.base + load.done + 1)
  /\ load' = [load EXCEPT !.done = @ + 1]
  /\ UNCHANGED <<strategy, num_of_locks, shared, abs, ub>>

Invoke(t) ==
  /\ load.free
  /\ load.done = load.total
  /\ CanCall(t)
  /\ \E o \in Ops, e \in Elems :
       /\ o = "Size" => e = 0
       /\ Begin(t, o, e)
  /\ UNCHANGED <<strategy, num_of_locks, shared, abs, load, ub>>

\* the scripted caller's queries
InvokeQuery ==
  /\ ~load.free
  /\ CanCall(1)
  /\ \A u \in Threads : th[u].pc = "idle"
  /\ \E q \in {<<"Contains", 3>>, <<"Contains", 9>>, <<"Remove", 0>>, <<"Size", 0>>} : Begin(1, q[1], q[2])
  /\ UNCHANGED <<strategy, num_of_locks, shared, abs, load, ub>>

Return(t) ==
  /\ th[t].pc = "done"
  /\ th' = [th EXCEPT ![t] = IdleThread]
  /\ UNCHANGED <<strategy, num_of_locks, shared, abs, load, ub>>

\* Size(): one atomic load (a plain read in the sequential class)
SizeLoad(t) ==
  /\ th[t].pc = "start"
  /\ th[t].op = "Size"
  /\ th' = [th EXCEPT ![t].pc = "done", ![t].size_ret = size]
  /\ UNCHANGED <<strategy, num_of_locks, shared, abs, load, ub>>

\* the history: what a call taking effect now has to return
LinResult(o, e) == IF o = "Add" THEN e \notin abs.set ELSE e \in abs.set

\* the history after a call o(e) that returns r takes effect
LinAbs(o, e, r) ==
  IF o = "Add"
  THEN [set |-> abs.set \cup {e},
        won |-> IF r THEN abs.won \cup {e} ELSE abs.won,
        twice |-> IF r /\ e \in abs.won THEN abs.twice \cup {e} ELSE abs.twice]
  ELSE IF o = "Remove"
  THEN [set |-> abs.set \ {e},
        won |-> IF r THEN abs.won \ {e} ELSE abs.won,
        twice |-> abs.twice]
  ELSE abs

\* the bucket operation of a call: the list afterwards and the value returned
ChainList(list, o, e) ==
  IF o = "Add" THEN FindOrPushBackList(list, e)
  ELSE IF o = "Remove" THEN FindAndEraseList(list, e)
  ELSE list

ChainResult(list, o, e) ==
  IF o = "Add" THEN FindOrPushBackResult(list, e)
  ELSE IF o = "Remove" THEN FindAndEraseResult(list, e)
  ELSE Find(list, e)

\* if (result) size_.fetch_add(1) / size_++
CountAdd(sz, r) == IF r THEN sz + 1 ELSE sz

CountRemoveAlways(sz, r) == sz - 1

\* if (result) size_.fetch_sub(1) / size_--
CountRemove(sz, r) == IF r THEN sz - 1 ELSE sz


\* ------------------------------------------------------ HashSetSequential
SeqAdd(t) ==
  /\ strategy = "sequential" /\ th[t].pc = "start" /\ th[t].op = "Add"
  /\ LET e == th[t].elem
         b == Hash(e) % Len(table)
         r == FindOrPushBackResult(table[b + 1], e)
         t1 == [table EXCEPT ![b + 1] = FindOrPushBackList(@, e)]
         s1 == CountAdd(size, r)
         grow == Policy(s1, Len(t1))
     IN  /\ size' = s1
         /\ table' = IF grow THEN Rehash(t1, Len(t1) * 2) ELSE t1
         /\ th' = [th EXCEPT ![t].pc = "done", ![t].result = r, ![t].bucket_idx = b,
                             ![t].lin = LinResult("Add", e),
                             ![t].old_table = IF grow THEN t1 ELSE <<>>,
                             ![t].old_size = IF grow THEN s1 ELSE 0,
                             ![t].new_capacity = IF grow THEN Len(t1) * 2 ELSE 0]
         /\ abs' = LinAbs("Add", e, r)
  /\ UNCHANGED <<strategy, num_of_locks, capacity, mutex, locks, resizing_flag,
                 locks_list_lock, load, ub>>

SeqRemove(t) ==
  /\ strategy = "sequential" /\ th[t].pc = "start" /\ th[t].op = "Remove"
  /\ LET e == th[t].elem
         b == Hash(e) % Len(table)
         r == FindAndEraseResult(table[b + 1], e)
     IN  /\ table' = [table EXCEPT ![b + 1] = FindAndEraseList(@, e)]
         /\ size' = CountRemove(size, r)
         /\ th' = [th EXCEPT ![t].pc = "done", ![t].result = r, ![t].bucket_idx = b,
                             ![t].lin = LinResult("Remove", e)]
         /\ abs' = LinAbs("Remove", e, r)
  /\ UNCHANGED <<strategy, num_of_locks, capacity, mutex, locks, resizing_flag,
                 locks_list_lock, load, ub>>

SeqContains(t) ==
  /\ strategy = "sequential" /\ th[t].pc = "start" /\ th[t].op = "Contains"
  /\ LET e == th[t].elem
         b == Hash(e) % Len(table)
     IN  th' = [th EXCEPT ![t].pc = "done", ![t].result = Find(table[b + 1], e),
                          ![t].bucket_idx = b, ![t].lin = LinResult("Contains", e)]
  /\ UNCHANGED <<strategy, num_of_locks, shared, abs, load, ub>>

\* ---------------------------------------------------- HashSetCoarseGrained
\* scoped_lock(mutex_); bucket_idx = hash % table_.size()
CgLock(t) ==
  /\ strategy = "coarse" /\ th[t].pc = "start" /\ th[t].op # "Size"
  /\ mutex = NoThread
  /\ mutex' = t
  /\ th' = [th EXCEPT ![t].pc = "cg_chain", ![t].bucket_idx = Hash(th[t].elem) % Len(table)]
  /\ UNCHANGED <<strategy, num_of_locks, table, size, capacity, locks, resizing_flag,
                 locks_list_lock, abs, load, ub>>

\* FindOrPushBack / FindAndErase / std::find on the bucket, under mutex_;
\* Contains then returns
CgChain(t) ==
  /\ strategy = "coarse" /\ th[t].pc = "cg_chain"
  /\ LET e == th[t].elem
         b == th[t].bucket_idx
         o == th[t].op
         r == ChainResult(table[b + 1], o, e)
     IN  /\ abs' = LinAbs(o, e, r)
         /\ table' = [table EXCEPT ![b + 1] = ChainList(@, o, e)]
         /\ mutex' = IF o = "Contains" THEN NoThread ELSE mutex
         /\ th' = [th EXCEPT ![t].pc = IF o = "Contains" THEN "done" ELSE "cg_count",
                             ![t].result = r, ![t].lin = LinResult(o, e)]
  /\ UNCHANGED <<strategy, num_of_locks, size, capacity, locks, resizing_flag,
                 locks_list_lock, load, ub>>

\* if (result) size_.fetch_add(1) / fetch_sub(1); Remove then returns
CgCount(t) ==
  /\ strategy = "coarse" /\ th[t].pc = "cg_count"
  /\ IF th[t].op = "Add"
     THEN /\ size' = CountAdd(size, th[t].result)
          /\ mutex' = mutex
          /\ th' = [th EXCEPT ![t].pc = "cg_policy"]
     ELSE /\ size' = CountRemove(size, th[t].result)
          /\ mutex' = NoThread
          /\ th' = [th EXCEPT ![t].pc = "done"]
  /\ UNCHANGED <<strategy, num_of_locks, table, capacity, locks, resizing_flag,
                 locks_list_lock, abs, load, ub>>

\* if (policy()) resize();
CgPolicy(t) ==
  /\ strategy = "coarse" /\ th[t].pc = "cg_policy"
  /\ IF Policy(size, Len(table))
     THEN /\ table' = Rehash(table, Len(table) * 2)
          /\ th' = [th EXCEPT ![t].pc = "cg_unlock", ![t].old_table = table,
                              ![t].old_size = size, ![t].new_capacity = Len(table) * 2]
     ELSE /\ table' = table
          /\ th' = [th EXCEPT ![t].pc = "cg_unlock"]
  /\ UNCHANGED <<strategy, num_of_locks, size, capacity, mutex, locks, resizing_flag,
                 locks_list_lock, abs, load, ub>>

\* return result; the scoped_lock releases mutex_
CgUnlock(t) ==
  /\ strategy = "coarse" /\ th[t].pc = "cg_unlock"
  /\ mutex' = NoThread
  /\ th' = [th EXCEPT ![t].pc = "done"]
  /\ UNCHANGED <<strategy, num_of_locks, table, size, capacity, locks, resizing_flag,
                 locks_list_lock, abs, load, ub>>

\* ---------------------------------------------------------- HashSetStriped
ReleaseAll(t) == [k \in 1..Len(locks) |-> IF locks[k] = t THEN NoThread ELSE locks[k]]

\* lock_idx = hash % num_of_locks_; lock(locks_[lock_idx])
StLock(t) ==
  /\ strategy = "striped" /\ th[t].pc = "start" /\ th[t].op # "Size"
  /\ LET l == Hash(th[t].elem) % num_of_locks
     IN  /\ locks[l + 1] = NoThread
         /\ locks' = [locks EXCEPT ![l + 1] = t]
         /\ th' = [th EXCEPT ![t].pc = "st_cap", ![t].lock = l]
  /\ UNCHANGED <<strategy, num_of_locks, table, size, capacity, mutex, resizing_flag,
                 locks_list_lock, abs, load, ub>>

\* current_capacity = capacity_.load(); bucket_idx = hash % current_capacity
StReadCap(t) ==
  /\ strategy = "striped" /\ th[t].pc = "st_cap"
  /\ th' = [th EXCEPT ![t].pc = "st_chain", ![t].current_capacity = capacity,
                      ![t].bucket_idx = Hash(th[t].elem) % capacity]
  /\ UNCHANGED <<strategy, num_of_locks, shared, abs, load, ub>>

\* the bucket operation on table_[bucket_idx]; Contains then returns
StChain(t) ==
  /\ strategy = "striped" /\ th[t].pc = "st_chain"
  /\ LET e == th[t].elem
         b == th[t].bucket_idx
         o == th[t].op
         unlocked == [locks EXCEPT ![th[t].lock + 1] = NoThread]
     IN  IF b >= Len(table)
         THEN /\ ub' = TRUE
              /\ locks' = unlocked
              /\ th' = [th EXCEPT ![t].pc = "done"]
              /\ UNCHANGED <<table, abs>>
         ELSE LET r == ChainResult(table[b + 1], o, e)
              IN  /\ ub' = ub
                  /\ abs' = LinAbs(o, e, r)
                  /\ table' = [table EXCEPT ![b + 1] = ChainList(@, o, e)]
                  /\ locks' = IF o = "Contains" THEN unlocked ELSE locks
                  /\ th' = [th EXCEPT ![t].pc = IF o = "Contains" THEN "done" ELSE "st_count",
                                      ![t].result = r, ![t].lin = LinResult(o, e)]
  /\ UNCHANGED <<strategy, num_of_locks, size, capacity, mutex, resizing_flag,
                 locks_list_lock, load>>

\* if (result) size_.fetch_add(1) / fetch_sub(1); Remove returns, and so does
\* an Add that inserted nothing
StCount(t) ==
  /\ strategy = "striped" /\ th[t].pc = "st_count"
  /\ LET unlocked == [locks EXCEPT ![th[t].lock + 1] = NoThread]
     IN  IF th[t].op = "Add"
         THEN /\ size' = CountAdd(size, th[t].result)
              /\ locks' = IF th[t].result THEN locks ELSE unlocked
              /\ th' = [th EXCEPT ![t].pc = IF th[t].result THEN "st_policy" ELSE "done"]
         ELSE /\ size' = CountRemove(size, th[t].result)
              /\ locks' = unlocked
              /\ th' = [th EXCEPT ![t].pc = "done"]
  /\ UNCHANGED <<strategy, num_of_locks, table, capacity, mutex, resizing_flag,
                 locks_list_lock, abs, load, ub>>

StPolicyKeepLock(t) ==
  /\ strategy = "striped" /\ th[t].pc = "st_policy"
  /\ locks' = IF Policy(size, th[t].current_capacity)
              THEN locks ELSE [locks EXCEPT ![th[t].lock + 1] = NoThread]
  /\ th' = [th EXCEPT ![t].pc = IF Policy(size, th[t].current_capacity)
                                THEN "st_rs_lock" ELSE "done",
                      ![t].i = 0]
  /\ UNCHANGED <<strategy, num_of_locks, table, size, capacity, mutex, resizing_flag,
                 locks_list_lock, abs, load, ub>>

\* if (policy(current_capacity)) { lock.unlock(); resize(current_capacity); }
StPolicy(t) ==
  /\ strategy = "striped" /\ th[t].pc = "st_policy"
  /\ locks' = [locks EXCEPT ![th[t].lock + 1] = NoThread]
  /\ th' = [th EXCEPT ![t].pc = IF Policy(size, th[t].current_capacity)
                                THEN "st_rs_lock" ELSE "done",
                      ![t].i = 0]
  /\ UNCHANGED <<strategy, num_of_locks, table, size, capacity, mutex, resizing_flag,
                 locks_list_lock, abs, load, ub>>

StAllButLastLock == Len(locks) - 1

\* resize: for (auto& lock : locks_) unique_locks.emplace_back(lock);
StAllLocks == Len(locks)

StResizeLock(t) ==
  /\ strategy = "striped" /\ th[t].pc = "st_rs_lock"
  /\ locks[th[t].i + 1] = NoThread
  /\ locks' = [locks EXCEPT ![th[t].i + 1] = t]
  /\ th' = [th EXCEPT ![t].i = @ + 1,
                      ![t].pc = IF th[t].i + 1 = StAllLocks THEN "st_rs_check" ELSE "st_rs_lock"]
  /\ UNCHANGED <<strategy, num_of_locks, table, size, capacity, mutex, resizing_flag,
                 locks_list_lock, abs, load, ub>>

\* if (old_capacity != capacity_.load()) return;
StStale(old_capacity) == old_capacity # capacity

StResizeCheck(t) ==
  /\ strategy = "striped" /\ th[t].pc = "st_rs_check"
  /\ IF StStale(th[t].current_capacity)
     THEN /\ locks' = ReleaseAll(t)
          /\ th' = [th EXCEPT ![t].pc = "done"]
     ELSE /\ locks' = locks
          /\ th' = [th EXCEPT ![t].pc = "st_rs_alloc"]
  /\ UNCHANGED <<strategy, num_of_locks, table, size, capacity, mutex, resizing_flag,
                 locks_list_lock, abs, load, ub>>

\* old_table = table_; new_capacity = capacity_.load() * 2; table_ = new vector
StResizeAlloc(t) ==
  /\ strategy = "striped" /\ th[t].pc = "st_rs_alloc"
  /\ table' = EmptyTable(capacity * 2)
  /\ th' = [th EXCEPT ![t].pc = "st_rs_rehash", ![t].old_table = table,
                      ![t].old_size = size, ![t].new_capacity = capacity * 2]
  /\ UNCHANGED <<strategy, num_of_locks, size, capacity, mutex, locks, resizing_flag,
                 locks_list_lock, abs, load, ub>>

StResizeRehashUnlocking(t) ==
  /\ strategy = "striped" /\ th[t].pc = "st_rs_rehash"
  /\ table' = Reinsert(table, Flatten(th[t].old_table), th[t].new_capacity)
  /\ locks' = ReleaseAll(t)
  /\ th' = [th EXCEPT ![t].pc = "st_rs_store"]
  /\ UNCHANGED <<strategy, num_of_locks, size, capacity, mutex, resizing_flag,
                 locks_list_lock, abs, load, ub>>

\* the reinsertion loop
StResizeRehash(t) ==
  /\ strategy = "striped" /\ th[t].pc = "st_rs_rehash"
  /\ table' = Reinsert(table, Flatten(th[t].old_table), th[t].new_capacity)
  /\ th' = [th EXCEPT ![t].pc = "st_rs_store"]
  /\ UNCHANGED <<strategy, num_of_locks, size, capacity, mutex, locks, resizing_flag,
                 locks_list_lock, abs, load, ub>>

\* capacity_.store(new_capacity); the unique_locks are released on exit
StResizeStore(t) ==
  /\ strategy = "striped" /\ th[t].pc = "st_rs_store"
  /\ capacity' = th[t].new_capacity
  /\ locks' = ReleaseAll(t)
  /\ th' = [th EXCEPT ![t].pc = "done"]
  /\ UNCHANGED <<strategy, num_of_locks, table, size, mutex, resizing_flag,
                 locks_list_lock, abs, load, ub>>

\* -------------------------------------------------------- HashSetRefinable
\* the head of the retry loop: the resizing_flag_ test with the empty body,
\* then current_capacity = capacity_.load(); bucket_idx = hash % current_capacity
RfReadCap(t) ==
  /\ strategy = "refinable"
  /\ th[t].pc = "start" \/ th[t].pc = "rf_retry"
  /\ th[t].op # "Size"
  /\ th' = [th EXCEPT ![t].pc = "rf_getlock", ![t].current_capacity = capacity,
                      ![t].bucket_idx = Hash(th[t].elem) % capacity]
  /\ UNCHANGED <<strategy, num_of_locks, shared, abs, load, ub>>

\* lock_shared(); bucket_lock = locks_[bucket_idx].get(); unlock_shared()
RfGetLock(t) ==
  /\ strategy = "refinable" /\ th[t].pc = "rf_getlock"
  /\ locks_list_lock.writer = NoThread
  /\ IF th[t].bucket_idx >= Len(locks)
     THEN /\ ub' = TRUE
          /\ th' = [th EXCEPT ![t].pc = "done"]
     ELSE /\ ub' = ub
          /\ th' = [th EXCEPT ![t].pc = "rf_lock", ![t].lock = th[t].bucket_idx]
  /\ UNCHANGED <<strategy, num_of_locks, shared, abs, load>>

\* bucket_lock->lock()
RfLock(t) ==
  /\ strategy = "refinable" /\ th[t].pc = "rf_lock"
  /\ locks[th[t].lock + 1] = NoThread
  /\ locks' = [locks EXCEPT ![th[t].lock + 1] = t]
  /\ th' = [th EXCEPT ![t].pc = "rf_chkflag"]
  /\ UNCHANGED <<strategy, num_of_locks, table, size, capacity, mutex, resizing_flag,
                 locks_list_lock, abs, load, ub>>

RfFlagIgnored == TRUE

\* the re-check, first operand: !resizing_flag_.load()
RfFlagClear == ~resizing_flag

RfCheckFlag(t) ==
  /\ strategy = "refinable" /\ th[t].pc = "rf_chkflag"
  /\ IF RfFlagClear
     THEN /\ locks' = locks
          /\ th' = [th EXCEPT ![t].pc = "rf_chkcap"]
     ELSE /\ locks' = [locks EXCEPT ![th[t].lock + 1] = NoThread]
          /\ th' = [th EXCEPT ![t].pc = "rf_retry"]
  /\ UNCHANGED <<strategy, num_of_locks, table, size, capacity, mutex, resizing_flag,
                 locks_list_lock, abs, load, ub>>

RfCapacityIgnored(current_capacity) == TRUE

RfCapacityNeverSame(current_capacity) == current_capacity # capacity

\* the re-check, second operand: current_capacity == capacity_.load()
RfSameCapacity(current_capacity) == current_capacity = capacity

RfCheckCap(t) ==
  /\ strategy = "refinable" /\ th[t].pc = "rf_chkcap"
  /\ IF RfSameCapacity(th[t].current_capacity)
     THEN /\ locks' = locks
          /\ th' = [th EXCEPT ![t].pc = "rf_chain"]
     ELSE /\ locks' = [locks EXCEPT ![th[t].lock + 1] = NoThread]
          /\ th' = [th EXCEPT ![t].pc = "rf_retry"]
  /\ UNCHANGED <<strategy, num_of_locks, table, size, capacity, mutex, resizing_flag,
                 locks_list_lock, abs, load, ub>>

\* the bucket operation on table_[bucket_idx]; Contains then unlocks and returns
RfChain(t) ==
  /\ strategy = "refinable" /\ th[t].pc = "rf_chain"
  /\ LET e == th[t].elem
         b == th[t].bucket_idx
         o == th[t].op
         unlocked == [locks EXCEPT ![th[t].lock + 1] = NoThread]
     IN  IF b >= Len(table)
         THEN /\ ub' = TRUE
              /\ locks' = unlocked
              /\ th' = [th EXCEPT ![t].pc = "done"]
              /\ UNCHANGED <<table, abs>>
         ELSE LET r == ChainResult(table[b + 1], o, e)
              IN  /\ ub' = ub
                  /\ abs' = LinAbs(o, e, r)
                  /\ table' = [table EXCEPT ![b + 1] = ChainList(@, o, e)]
                  /\ locks' = IF o = "Contains" THEN unlocked ELSE locks
                  /\ th' = [th EXCEPT ![t].pc = IF o = "Contains" THEN "done" ELSE "rf_count",
                                      ![t].result = r, ![t].lin = LinResult(o, e)]
  /\ UNCHANGED <<strategy, num_of_locks, size, capacity, mutex, resizing_flag,
                 locks_list_lock, load>>

\* if (result) size_.fetch_add(1) / fetch_sub(1); Remove unlocks and returns,
\* and so does an Add that inserted nothing
RfCount(t) ==
  /\ strategy = "refinable" /\ th[t].pc = "rf_count"
  /\ LET unlocked == [locks EXCEPT ![th[t].lock + 1] = NoThread]
     IN  IF th[t].op = "Add"
         THEN /\ size' = CountAdd(size, th[t].result)
              /\ locks' = IF th[t].result THEN locks ELSE unlocked
              /\ th' = [th EXCEPT ![t].pc = IF th[t].result THEN "rf_policy" ELSE "done"]
         ELSE /\ size' = CountRemove(size, th[t].result)
              /\ locks' = unlocked
              /\ th' = [th EXCEPT ![t].pc = "done"]
  /\ UNCHANGED <<strategy, num_of_locks, table, capacity, mutex, resizing_flag,
                 locks_list_lock, abs, load, ub>>

\* if (size_.load() / current_capacity > 4) { unlock; resize(current_capacity); }
RfPolicy(t) ==
  /\ strategy = "refinable" /\ th[t].pc = "rf_policy"
  /\ locks' = [locks EXCEPT ![th[t].lock + 1] = NoThread]
  /\ th' = [th EXCEPT ![t].pc = IF Policy(size, th[t].current_capacity)
                                THEN "rf_rs_cas" ELSE "done"]
  /\ UNCHANGED <<strategy, num_of_locks, table, size, capacity, mutex, resizing_flag,
                 locks_list_lock, abs, load, ub>>

RfResizeCasBlind(t) ==
  /\ strategy = "refinable" /\ th[t].pc = "rf_rs_cas"
  /\ resizing_flag' = TRUE
  /\ th' = [th EXCEPT ![t].pc = "rf_rs_check"]
  /\ UNCHANGED <<strategy, num_of_locks, table, size, capacity, mutex, locks,
                 locks_list_lock, abs, load, ub>>

\* resize: resizing_flag_.compare_exchange_strong(false, true); the loser returns
RfResizeCas(t) ==
  /\ strategy = "refinable" /\ th[t].pc = "rf_rs_cas"
  /\ IF resizing_flag = FALSE
     THEN /\ resizing_flag' = TRUE
          /\ th' = [th EXCEPT ![t].pc = "rf_rs_check"]
     ELSE /\ resizing_flag' = resizing_flag
          /\ th' = [th EXCEPT ![t].pc = "done", ![t].lost = TRUE]
  /\ UNCHANGED <<strategy, num_of_locks, table, size, capacity, mutex, locks,
                 locks_list_lock, abs, load, ub>>

\* if (old_capacity != capacity_.load()) { reset the flag; return; }
RfStale(old_capacity) == old_capacity # capacity

RfResizeCheck(t) ==
  /\ strategy = "refinable" /\ th[t].pc = "rf_rs_check"
  /\ IF RfStale(th[t].current_capacity)
     THEN /\ resizing_flag' = IF resizing_flag = TRUE THEN FALSE ELSE resizing_flag
          /\ th' = [th EXCEPT ![t].pc = "done"]
     ELSE /\ resizing_flag' = resizing_flag
          /\ th' = [th EXCEPT ![t].pc = "rf_rs_shared"]
  /\ UNCHANGED <<strategy, num_of_locks, table, size, capacity, mutex, locks,
                 locks_list_lock, abs, load, ub>>

\* locks_list_lock_.lock_shared()
RfResizeLockShared(t) ==
  /\ strategy = "refinable" /\ th[t].pc = "rf_rs_shared"
  /\ locks_list_lock.writer = NoThread
  /\ locks_list_lock' = [locks_list_lock EXCEPT !.readers = @ \cup {t}]
  /\ th' = [th EXCEPT ![t].pc = "rf_rs_sweep", ![t].i = 0]
  /\ UNCHANGED <<strategy, num_of_locks, table, size, capacity, mutex, locks,
                 resizing_flag, abs, load, ub>>

RfSweepEndShort == Len(locks) - 1

RfResizeSweepNoWait(t) ==
  /\ strategy = "refinable" /\ th[t].pc = "rf_rs_sweep"
  /\ th[t].i < Len(locks)
  /\ th' = [th EXCEPT ![t].i = @ + 1]
  /\ UNCHANGED <<strategy, num_of_locks, shared, abs, load, ub>>

\* for (auto& mutex : locks_): the loop visits every mutex of the array
RfSweepEnd == Len(locks)

\* mutex->lock(): the resizer waits for the holder of mutex i, then takes it
RfResizeSweep(t) ==
  /\ strategy = "refinable" /\ th[t].pc = "rf_rs_sweep"
  /\ th[t].i < RfSweepEnd
  /\ locks[th[t].i + 1] = NoThread
  /\ locks' = [locks EXCEPT ![th[t].i + 1] = t]
  /\ th' = [th EXCEPT ![t].pc = "rf_rs_swept"]
  /\ UNCHANGED <<strategy, num_of_locks, table, size, capacity, mutex, resizing_flag,
                 locks_list_lock, abs, load, ub>>

\* mutex->unlock(): and gives it back at once, before it goes to the next
RfResizeSweepUnlock(t) ==
  /\ strategy = "refinable" /\ th[t].pc = "rf_rs_swept"
  /\ locks' = [locks EXCEPT ![th[t].i + 1] = NoThread]
  /\ th' = [th EXCEPT ![t].pc = "rf_rs_sweep", ![t].i = @ + 1]
  /\ UNCHANGED <<strategy, num_of_locks, table, size, capacity, mutex, resizing_flag,
                 locks_list_lock, abs, load, ub>>

\* locks_list_lock_.unlock_shared()
RfResizeUnlockShared(t) ==
  /\ strategy = "refinable" /\ th[t].pc = "rf_rs_sweep"
  /\ th[t].i >= RfSweepEnd
  /\ locks_list_lock' = [locks_list_lock EXCEPT !.readers = @ \ {t}]
  /\ th' = [th EXCEPT ![t].pc = "rf_rs_alloc"]
  /\ UNCHANGED <<strategy, num_of_locks, table, size, capacity, mutex, locks,
                 resizing_flag, abs, load, ub>>

RfResizeAllocPublishing(t) ==
  /\ strategy = "refinable" /\ th[t].pc = "rf_rs_alloc"
  /\ table' = EmptyTable(capacity * 2)
  /\ capacity' = capacity * 2
  /\ th' = [th EXCEPT ![t].pc = "rf_rs_rehash", ![t].old_table = table,
                      ![t].old_size = size, ![t].new_capacity = capacity * 2]
  /\ UNCHANGED <<strategy, num_of_locks, size, mutex, locks, resizing_flag,
                 locks_list_lock, abs, load, ub>>

\* old_table = table_; new_capacity = capacity_.load() * 2; table_ = new vector
RfResizeAlloc(t) ==
  /\ strategy = "refinable" /\ th[t].pc = "rf_rs_alloc"
  /\ table' = EmptyTable(capacity * 2)
  /\ th' = [th EXCEPT ![t].pc = "rf_rs_rehash", ![t].old_table = table,
                      ![t].old_size = size, ![t].new_capacity = capacity * 2]
  /\ UNCHANGED <<strategy, num_of_locks, size, capacity, mutex, locks, resizing_flag,
                 locks_list_lock, abs, load, ub>>

\* the reinsertion loop
RfResizeRehash(t) ==
  /\ strategy = "refinable" /\ th[t].pc = "rf_rs_rehash"
  /\ table' = Reinsert(table, Flatten(th[t].old_table), th[t].new_capacity)
  /\ th' = [th EXCEPT ![t].pc = "rf_rs_lockx"]
  /\ UNCHANGED <<strategy, num_of_locks, size, capacity, mutex, locks, resizing_flag,
                 locks_list_lock, abs, load, ub>>

\* locks_list_lock_.lock()
RfResizeLockExclusive(t) ==
  /\ strategy = "refinable" /\ th[t].pc = "rf_rs_lockx"
  /\ locks_list_lock.writer = NoThread /\ locks_list_lock.readers = {}
  /\ locks_list_lock' = [locks_list_lock EXCEPT !.writer = t]
  /\ th' = [th EXCEPT ![t].pc = "rf_rs_grow"]
  /\ UNCHANGED <<strategy, num_of_locks, table, size, capacity, mutex, locks,
                 resizing_flag, abs, load, ub>>

\* old_capacity times locks_.push_back(new mutex); locks_list_lock_.unlock()
RfResizeGrowLocks(t) ==
  /\ strategy = "refinable" /\ th[t].pc = "rf_rs_grow"
  /\ locks' = locks \o [k \in 1..th[t].current_capacity |-> NoThread]
  /\ locks_list_lock' = [locks_list_lock EXCEPT !.writer = NoThread]
  /\ th' = [th EXCEPT ![t].pc = "rf_rs_store"]
  /\ UNCHANGED <<strategy, num_of_locks, table, size, capacity, mutex, resizing_flag,
                 abs, load, ub>>

\* capacity_.store(new_capacity)
RfResizeStore(t) ==
  /\ strategy = "refinable" /\ th[t].pc = "rf_rs_store"
  /\ capacity' = th[t].new_capacity
  /\ th' = [th EXCEPT ![t].pc = "rf_rs_clear"]
  /\ UNCHANGED <<strategy, num_of_locks, table, size, mutex, locks, resizing_flag,
                 locks_list_lock, abs, load, ub>>

\* resizing_flag_.compare_exchange_strong(true, false)
RfResizeClear(t) ==
  /\ strategy = "refinable" /\ th[t].pc = "rf_rs_clear"
  /\ resizing_flag' = IF resizing_flag = TRUE THEN FALSE ELSE resizing_flag
  /\ th' = [th EXCEPT ![t].pc = "done"]
  /\ UNCHANGED <<strategy, num_of_locks, table, size, capacity, mutex, locks,
                 locks_list_lock, abs, load, ub>>

\* ---------------------------------------------------------- specifications
StStep(t) ==
  \/ StLock(t) \/ StReadCap(t) \/ StChain(t) \/ StCount(t) \/ StPolicy(t)
  \/ StResizeLock(t) \/ StResizeCheck(t) \/ StResizeAlloc(t) \/ StResizeRehash(t)
  \/ StResizeStore(t)

RfStep(t) ==
  \/ RfReadCap(t) \/ RfGetLock(t) \/ RfLock(t) \/ RfCheckFlag(t) \/ RfCheckCap(t)
  \/ RfChain(t) \/ RfCount(t) \/ RfPolicy(t)
  \/ RfResizeCas(t) \/ RfResizeCheck(t) \/ RfResizeLockShared(t) \/ RfResizeSweep(t)
  \/ RfResizeSweepUnlock(t)
  \/ RfResizeUnlockShared(t) \/ RfResizeAlloc(t) \/ RfResizeRehash(t)
  \/ RfResizeLockExclusive(t) \/ RfResizeGrowLocks(t) \/ RfResizeStore(t)
  \/ RfResizeClear(t)

Step(t) ==
  \/ SizeLoad(t)
  \/ SeqAdd(t) \/ SeqRemove(t) \/ SeqContains(t)
  \/ CgLock(t) \/ CgChain(t) \/ CgCount(t) \/ CgPolicy(t) \/ CgUnlock(t)
  \/ StStep(t)
  \/ RfStep(t)

\* any number of callers on one instance of any of the four classes, after
\* thread 1 has loaded it
Next ==
  \/ InvokeLoad(1)
  \/ \E t \in Threads : Invoke(t) \/ Step(t) \/ Return(t)

Spec == Init /\ [][Next]_vars

\* one caller adding 1, 2, 3, ... to a set of capacity 4, with queries between
NextScenario ==
  \/ InvokeLoad(1)
  \/ InvokeQuery
  \/ Step(1) \/ Return(1)

SpecScenario == InitScenario /\ [][NextScenario]_vars

\* all callers adding pairwise distinct elements to a striped set
NextStripedAdds == \E t \in Threads : InvokeLoad(t) \/ StStep(t) \/ Return(t)

SpecStripedAdds == InitStripedAdds /\ [][NextStripedAdds]_vars

\* all callers adding pairwise distinct elements to a refinable set
NextRefinableAdds == \E t \in Threads : InvokeLoad(t) \/ RfStep(t) \/ Return(t)

SpecRefinableAdds == InitRefinableAdds /\ [][NextRefinableAdds]_vars

\* the same, the first four elements being added by thread 1 and the others
\* by any caller
LateLoad(t) == load.done >= LoadFactorThreshold /\ InvokeLoad(t)

NextRefinableRace ==
  \/ InvokeLoad(1)
  \/ \E t \in Threads : LateLoad(t) \/ RfStep(t) \/ Return(t)

SpecRefinableRace == InitRefinableRace /\ [][NextRefinableRace]_vars

\* any number of callers on a refinable set, every thread inside a call
\* being scheduled again and again and getting a lock that is free again and
\* again (the callers are free to stop calling)
NextRefinable ==
  \/ InvokeLoad(1)
  \/ \E t \in Threads : Invoke(t) \/ RfStep(t) \/ SizeLoad(t) \/ Return(t)

SpecRefinableFair ==
  /\ InitRefinable /\ [][NextRefinable]_vars
  /\ \A t \in Threads : SF_vars(RfStep(t) \/ SizeLoad(t))

\* ------------------------------------------------------------- observations
\* the number of buckets a call computes its index from
Cap == IF strategy \in {"striped", "refinable"} THEN capacity ELSE Len(table)

Stored == Flatten(table)

CountOf(seq, e) == Cardinality({k \in 1..Len(seq) : seq[k] = e})

ElemsOf(seq) == {seq[k] : k \in 1..Len(seq)}

\* what Contains(e) returns when called in a quiescent state
ContainsNow(e) ==
  (Hash(e) % Cap) < Len(table) /\ Find(table[(Hash(e) % Cap) + 1], e)

Done(t, o) == th[t].pc = "done" /\ th[t].op = o

\* thread t has rebuilt the table and still excludes every other call
JustMigrated(t) ==
  /\ th[t].new_capacity # 0
  /\ \/ th[t].pc \in {"cg_unlock", "st_rs_store", "rf_rs_lockx", "rf_rs_grow",
                      "rf_rs_store", "rf_rs_clear"}
     \/ strategy = "sequential" /\ th[t].pc = "done"

\* thread t is about to read or write a bucket (its chain operation)
AtChain(t) == th[t].pc \in {"cg_chain", "st_chain", "rf_chain"}

\* thread t has replaced table_ and has not yet stored the new capacity
Migrating(t) ==
  th[t].pc \in {"st_rs_rehash", "st_rs_store",
                "rf_rs_rehash", "rf_rs_lockx", "rf_rs_grow", "rf_rs_store"}

\* thread t has won the resize compare-and-set and not yet cleared the flag
Resizer(t) ==
  th[t].pc \in {"rf_rs_check", "rf_rs_shared", "rf_rs_sweep", "rf_rs_swept",
                "rf_rs_alloc", "rf_rs_rehash", "rf_rs_lockx", "rf_rs_grow",
                "rf_rs_store", "rf_rs_clear"}

\* ------------------------------------------------------------------- claims
\* C1: a call Add(e) that overlaps no other call returns true exactly when e
\* was absent before it, and e is then present (once, and found by Contains);
\* when it returns false the table, the size and the capacity are as before,
\* when it returns true the contents gained e alone and the size one.  So the
\* second of two consecutive Add(e) returns false and changes nothing.
C1_AddContract ==
  \A t \in Threads :
    (Done(t, "Add") /\ th[t].alone) =>
      LET p == th[t].pre
          e == th[t].elem
          was == e \in ElemsOf(Flatten(p.table))
      IN  /\ th[t].result = ~was
          /\ CountOf(Stored, e) = 1
          /\ ContainsNow(e)
          /\ was => (table = p.table /\ size = p.size /\ Cap = p.cap)
          /\ ~was => /\ ElemsOf(Stored) = ElemsOf(Flatten(p.table)) \cup {e}
                     /\ size = p.size + 1

C1_Witness ==
  \E t \in Threads :
    /\ strategy = "refinable" /\ Done(t, "Add") /\ th[t].alone
    /\ ~th[t].result /\ th[t].elem \in ElemsOf(Flatten(th[t].pre.table))

\* C2: a call Remove(e) that overlaps no other call returns true exactly when
\* e was present before it; e is then absent and the size one less; otherwise
\* it returns false and table and size are as before (on an empty set: false,
\* size still 0).
C2_RemoveContract ==
  \A t \in Threads :
    (Done(t, "Remove") /\ th[t].alone) =>
      LET p == th[t].pre
          e == th[t].elem
          was == e \in ElemsOf(Flatten(p.table))
      IN  /\ th[t].result = was
          /\ CountOf(Stored, e) = 0
          /\ ~ContainsNow(e)
          /\ was => /\ ElemsOf(Stored) = ElemsOf(Flatten(p.table)) \ {e}
                    /\ size = p.size - 1
          /\ ~was => (table = p.table /\ size = p.size)

C2_Witness ==
  \E t \in Threads :
    /\ Done(t, "Remove") /\ th[t].alone /\ ~th[t].result
    /\ th[t].pre.size = 0 /\ th[t].pre.table = EmptyTable(load.initial)
    /\ size = 0 /\ Stored = <<>>

\* C3: at every quiescent point no element is stored twice (in one bucket or
\* in two), and Contains(e) is true exactly for the elements whose latest
\* Add/Remove to take effect is an Add.
C3_Uniqueness ==
  Quiescent =>
    /\ \A e \in ElemsOf(Stored) : CountOf(Stored, e) = 1
    /\ \A e \in ElemsOf(Stored) \cup abs.set \cup Elems : ContainsNow(e) <=> e \in abs.set
    /\ \A t \in Threads :
         (Done(t, "Contains") /\ th[t].alone) => (th[t].result <=> th[t].elem \in abs.set)

C3_Witness ==
  /\ Quiescent /\ strategy = "refinable" /\ Len(table) = 2 * load.initial
  /\ \E t \in Threads : Done(t, "Contains") /\ th[t].alone /\ ~th[t].result
  /\ \E e \in Elems : e \in abs.set

\* C4: at every quiescent point size_ is the sum of the bucket lengths, and a
\* Size() call that overlapped nothing returned that sum.
C4_SizeConsistency ==
  Quiescent =>
    /\ size = Len(Stored)
    /\ \A t \in Threads : (Done(t, "Size") /\ th[t].alone) => th[t].size_ret = Len(Stored)

C4_Witness ==
  /\ Quiescent /\ strategy = "striped" /\ Len(table) = 2 * load.initial
  /\ \E t \in Threads : Done(t, "Size") /\ th[t].alone /\ th[t].size_ret = Len(Stored)
  /\ \E t \in Threads : Done(t, "Remove") /\ th[t].result

\* C5: in the three locked strategies every Add/Remove/Contains returns what
\* the sequential set returns at the moment the call takes effect (its bucket
\* operation, a point inside the call), migrations running or not.
C5_Linearizable ==
  strategy # "sequential" =>
    \A t \in Threads :
      th[t].op \in {"Add", "Remove", "Contains"} => th[t].result = th[t].lin

C5_Witness ==
  \E t, u \in Threads :
    /\ t # u /\ strategy = "refinable"
    /\ th[u].pc = "rf_rs_store"
    /\ th[t].pc = "rf_retry" /\ th[t].op = "Contains"

\* C6: of the Add(e) calls that take effect with no successful Remove(e)
\* between them exactly one returns true (never two, and one whenever e is
\* in the set); at quiescence e is stored once and size_ counts each such
\* element once.
C6_OneWinner ==
  strategy # "sequential" =>
    /\ abs.twice = {}
    /\ abs.won = abs.set
    /\ Quiescent =>
         /\ \A e \in ElemsOf(Stored) \cup abs.set :
              CountOf(Stored, e) = IF e \in abs.won THEN 1 ELSE 0
         /\ size = Cardinality(abs.won)

C6_Witness ==
  \E t, u \in Threads :
    /\ t # u /\ Done(t, "Add") /\ Done(u, "Add") /\ th[t].elem = th[u].elem
    /\ ~th[t].alone /\ ~th[u].alone
    /\ th[t].result /\ ~th[u].result
    /\ CountOf(Stored, th[t].elem) = 1

\* C7: when a migration has rebuilt the table, the new table holds exactly
\* the elements of the old one, each as often, in twice the buckets, and
\* size_ is what it was when the migration began.
C7_NoLossOnMigration ==
  \A t \in Threads :
    JustMigrated(t) =>
      LET old == Flatten(th[t].old_table)
      IN  /\ \A e \in ElemsOf(old) \cup ElemsOf(Stored) : CountOf(Stored, e) = CountOf(old, e)
          /\ size = th[t].old_size
          /\ Len(table) = 2 * Len(th[t].old_table)

C7_Witness ==
  \E t, u \in Threads :
    /\ t # u /\ strategy = "refinable" /\ JustMigrated(t) /\ InFlight(u)
    /\ th[u].op = "Remove" /\ Len(Stored) >= 5

\* C8: at every quiescent point, and when a migration has rebuilt the table,
\* every element stored in bucket i has hash mod (number of buckets) = i; at
\* a quiescent point the capacity is the number of buckets.
C8_CapacityInvariant ==
  /\ (Quiescent \/ \E t \in Threads : JustMigrated(t)) =>
       \A i \in 1..Len(table) : \A k \in 1..Len(table[i]) :
         Hash(table[i][k]) % Len(table) = i - 1
  /\ Quiescent => Cap = Len(table)

C8_Witness ==
  /\ Quiescent /\ strategy = "striped" /\ Len(table) = 4 /\ Cap = 4
  /\ \A i \in 1..4 : table[i] # <<>>

\* C9: callers adding pairwise distinct elements to a striped set: at every
\* quiescent point size_ is the number of elements added, each is stored
\* once, in bucket hash mod capacity, and each Add returned true.
C9_DistinctAdds ==
  Quiescent =>
    /\ size = load.done
    /\ Len(table) = capacity
    /\ \A k \in 1..load.done :
         /\ CountOf(Stored, load.base + k) = 1
         /\ InList(table[(Hash(load.base + k) % capacity) + 1], load.base + k)
    /\ \A t \in Threads : Done(t, "Add") => th[t].result

C9_Witness ==
  /\ Quiescent /\ load.done = load.total /\ capacity = 4
  /\ \E t, u \in Threads :
       /\ t # u /\ Done(t, "Add") /\ Done(u, "Add") /\ th[u].new_capacity = 4
       /\ ~th[t].alone /\ ~th[u].alone

\* C10 (as amended): capacity 4, Add of 1, 2, 3, 4, 5 in turn: no migration
\* happens (5 / 4 does not exceed 4; the table keeps 4 buckets until the 20th
\* element, whose Add migrates to 8); after the five Adds Size() is 5,
\* Contains(3) is true and Contains(9) is false.
C10_ScenarioNoMigration ==
  /\ (load.done = 5 /\ ~InFlight(1)) =>
       /\ Len(table) = 4 /\ Cap = 4 /\ size = 5
       /\ ContainsNow(3) /\ ~ContainsNow(9)
       /\ (Done(1, "Contains") /\ th[1].elem = 3) => th[1].result
       /\ (Done(1, "Contains") /\ th[1].elem = 9) => ~th[1].result
       /\ Done(1, "Size") => th[1].size_ret = 5
  /\ load.done < (LoadFactorThreshold + 1) * 4 => Len(table) = 4
  /\ (load.done >= (LoadFactorThreshold + 1) * 4 /\ ~InFlight(1)) =>
       (Len(table) = 8 /\ Cap = 8)

C10_Witness ==
  /\ load.done = 5 /\ strategy = "sequential"
  /\ Done(1, "Contains") /\ th[1].elem = 3 /\ th[1].result
  /\ Len(table) = 4

\* C10 as stated: the five Adds trigger one migration to capacity 8
C10_Original ==
  (load.done = 5 /\ ~InFlight(1)) =>
    /\ Len(table) = 8 /\ Cap = 8 /\ size = 5
    /\ ContainsNow(3) /\ ~ContainsNow(9)
\* C11: a call that overlaps no other call: an Add has migrated exactly when
\* it inserted its element and the size after the insertion, divided by the
\* capacity before it (integer division), exceeds 4; the migration left a
\* table of exactly double the capacity; Remove, Contains and Size leave the
\* capacity and the number of buckets as they were, and never enter a resize.
C11_GrowthPolicy ==
  /\ \A t \in Threads :
       (Done(t, "Add") /\ th[t].alone) =>
         LET p == th[t].pre
             due == th[t].result /\ ((p.size + 1) \div p.cap) > 4
         IN  /\ due => (Cap = 2 * p.cap /\ Len(table) = 2 * Len(p.table))
             /\ ~due => (Cap = p.cap /\ Len(table) = Len(p.table))
             /\ due <=> th[t].new_capacity # 0
  /\ \A t \in Threads :
       th[t].op \in {"Remove", "Contains", "Size"} =>
         /\ th[t].new_capacity = 0
         /\ (th[t].pc = "done" /\ th[t].alone) =>
              (Cap = th[t].pre.cap /\ Len(table) = Len(th[t].pre.table))

C11_Witness ==
  \E t \in Threads :
    /\ strategy = "refinable" /\ Done(t, "Add") /\ th[t].alone /\ th[t].result
    /\ th[t].pre.cap = 1 /\ th[t].pre.size = 4 /\ Cap = 2 /\ Len(table) = 2
\* C12: in the coarse-grained, striped and refinable strategies no thread is
\* at its chain operation while another thread is between replacing the
\* table and publishing the new capacity (in the coarse class: while another
\* thread is at the policy/resize step under the mutex); the table a chain
\* operation meets is whole: as many buckets as the published capacity, its
\* bucket index inside it, and holding exactly the elements of the set.
C12_MigrationExclusion ==
  strategy # "sequential" =>
    /\ ~ub
    /\ \A t \in Threads :
         AtChain(t) =>
           /\ \A u \in Threads \ {t} : ~Migrating(u) /\ th[u].pc # "cg_policy"
           /\ Len(table) = Cap
           /\ th[t].bucket_idx < Len(table)
           /\ ElemsOf(Stored) = abs.set

C12_Witness ==
  \E t, u \in Threads :
    /\ t # u /\ strategy = "refinable" /\ Migrating(u) /\ th[u].pc = "rf_rs_rehash"
    /\ th[t].pc = "rf_chkflag" /\ locks[th[t].lock + 1] = t
\* a resizer that has finished waiting for the bucket locks
PastSweep(u) ==
  th[u].pc \in {"rf_rs_alloc", "rf_rs_rehash", "rf_rs_lockx", "rf_rs_grow",
                "rf_rs_store", "rf_rs_clear"}

\* what thread t holds and knows at its chain operation
C13_AtChainOperation(t) ==
  LET c == th[t].current_capacity
      k == Hash(th[t].elem) % c
  IN  /\ th[t].lock = k /\ th[t].bucket_idx = k
      /\ locks[k + 1] = t
      /\ c = capacity /\ Len(table) = capacity
      /\ \A u \in Threads \ {t} :
           /\ ~PastSweep(u)
           /\ th[u].pc \in {"rf_rs_sweep", "rf_rs_swept"} => th[u].i <= k

\* the two loads of the re-check and what follows each
C13_Recheck(t) ==
  /\ (th[t].pc = "rf_chkflag" /\ th'[t].pc # "rf_chkflag") =>
       IF resizing_flag
       THEN th'[t].pc = "rf_retry" /\ locks'[th[t].lock + 1] = NoThread
       ELSE th'[t].pc = "rf_chkcap" /\ locks'[th[t].lock + 1] = t
  /\ (th[t].pc = "rf_chkcap" /\ th'[t].pc # "rf_chkcap") =>
       IF th[t].current_capacity # capacity
       THEN th'[t].pc = "rf_retry" /\ locks'[th[t].lock + 1] = NoThread
       ELSE th'[t].pc = "rf_chain" /\ locks'[th[t].lock + 1] = t
  /\ (th[t].pc = "rf_retry" /\ th'[t].pc # "rf_retry") =>
       /\ th'[t].pc = "rf_getlock"
       /\ th'[t].current_capacity = capacity
       /\ th'[t].bucket_idx = Hash(th[t].elem) % capacity

\* C13 (as amended): whenever a refinable Add, Remove or Contains is at its
\* chain operation it holds the bucket lock at index hash(e) mod c, c being
\* its capacity snapshot, c is the published capacity and the length of the
\* table, and no resizer has got past waiting for that lock (the resizing
\* flag may be set by a resizer still waiting); an operation that finds the
\* flag set or the capacity different from its snapshot at the re-check
\* releases the lock and restarts from the snapshot step, otherwise it goes on.
C13_StalenessRecheck ==
  /\ [](\A t \in Threads :
          (strategy = "refinable" /\ th[t].pc = "rf_chain") => C13_AtChainOperation(t))
  /\ [][\A t \in Threads : C13_Recheck(t)]_vars

C13_Witness ==
  \E t, u \in Threads :
    /\ t # u /\ th[t].pc = "rf_chain" /\ resizing_flag
    /\ th[u].pc = "rf_rs_sweep" /\ th[u].i = th[t].lock

\* C13 as stated: no resize is in progress at a chain operation
C13_Original ==
  \A t \in Threads :
    (strategy = "refinable" /\ th[t].pc = "rf_chain") =>
      /\ locks[(Hash(th[t].elem) % th[t].current_capacity) + 1] = t
      /\ th[t].current_capacity = capacity
      /\ ~resizing_flag
\* C14: in every reachable state of the refinable set at most one thread is
\* between winning the resize compare-and-set and clearing the flag, and the
\* flag is set exactly while there is one; the compare-and-set is one step:
\* a thread that finds the flag set returns at once and leaves the table,
\* the lock array, the capacity and the flag as they were; a thread that
\* finds it clear sets it and goes on.
C14_SingleResizer ==
  /\ [](strategy = "refinable" =>
          /\ Cardinality({t \in Threads : Resizer(t)}) <= 1
          /\ resizing_flag <=> \E t \in Threads : Resizer(t))
  /\ [][\A t \in Threads :
          (th[t].pc = "rf_rs_cas" /\ th'[t].pc # "rf_rs_cas") =>
            IF resizing_flag
            THEN /\ th'[t].pc = "done"
                 /\ UNCHANGED <<table, locks, capacity, locks_list_lock, resizing_flag>>
            ELSE /\ th'[t].pc = "rf_rs_check"
                 /\ resizing_flag']_vars

C14_Witness ==
  \E t, u \in Threads :
    /\ t # u /\ Resizer(t) /\ th[t].pc = "rf_rs_rehash"
    /\ th[u].pc = "done" /\ th[u].lost
    /\ th[u].current_capacity = capacity
\* C15 as stated: once every call has returned (so the winner of every resize
\* compare-and-set has finished), the capacity exceeds the capacity at which
\* any returned loser of the compare-and-set observed the load-factor trigger.
C15_LosersSatisfied ==
  (strategy = "refinable" /\ Quiescent /\ ~resizing_flag) =>
    \A t \in Threads :
      (th[t].pc = "done" /\ th[t].lost) => capacity > th[t].current_capacity
\* the bucket locks thread t holds
HeldBy(t) == {k \in 1..Len(locks) : locks[k] = t}

\* thread u has passed the flag re-check with its bucket lock held
InsideBucket(u) == th[u].pc \in {"rf_chkcap", "rf_chain", "rf_count", "rf_policy"}

C16_ResizerState(t) ==
  /\ th[t].pc = "rf_rs_sweep" =>
       /\ HeldBy(t) = {} /\ t \in locks_list_lock.readers /\ resizing_flag
       /\ \A u \in Threads \ {t} : InsideBucket(u) => th[u].lock >= th[t].i
  /\ th[t].pc = "rf_rs_swept" =>
       /\ HeldBy(t) = {th[t].i + 1} /\ t \in locks_list_lock.readers /\ resizing_flag
  /\ PastSweep(t) =>
       /\ HeldBy(t) = {} /\ t \notin locks_list_lock.readers /\ resizing_flag
       /\ \A u \in Threads \ {t} : ~InsideBucket(u)
  /\ th[t].pc = "rf_rs_clear" =>
       /\ capacity = th[t].new_capacity /\ Len(table) = capacity
       /\ Len(locks) = capacity

\* C16 (as amended): the refinable resizer, with the resizing flag set and
\* the lock array share-locked, visits the existing bucket locks in ascending
\* index order and acquires and releases each in turn: it holds at most one
\* at a time and none while it builds the double-capacity table, grows the
\* lock array and publishes the capacity.  Once it is past a lock no
\* operation is inside that bucket until the flag is cleared, and the flag is
\* cleared only after table, lock array and capacity are published.
C16_ResizerLocks ==
  /\ [](strategy = "refinable" => \A t \in Threads : C16_ResizerState(t))
  /\ [][\A t \in Threads :
          /\ (th[t].pc = "rf_rs_sweep" /\ th'[t].pc = "rf_rs_swept") =>
               (locks[th[t].i + 1] = NoThread /\ th'[t].i = th[t].i)
          /\ (th[t].pc = "rf_rs_swept" /\ th'[t].pc # "rf_rs_swept") =>
               (th'[t].pc = "rf_rs_sweep" /\ th'[t].i = th[t].i + 1)
          /\ (th[t].pc = "rf_rs_sweep" /\ th'[t].pc = "rf_rs_alloc") =>
               th[t].i = Len(locks)]_vars

C16_Witness ==
  \E t, u \in Threads :
    /\ t # u /\ th[t].pc = "rf_rs_store" /\ HeldBy(t) = {}
    /\ th[u].pc = "rf_chkflag" /\ HeldBy(u) = {th[u].lock + 1}
    /\ Len(locks) = 2 * capacity

\* C16 as stated: the resizer holds every existing bucket lock while it
\* builds and publishes
C16_Original ==
  \A t \in Threads :
    (strategy = "refinable"
       /\ th[t].pc \in {"rf_rs_alloc", "rf_rs_rehash", "rf_rs_lockx", "rf_rs_grow",
                        "rf_rs_store"}) =>
      \A k \in 1..capacity : locks[k] = t
\* C17 as stated: the thread that has won the resize compare-and-set goes on
\* to migrate exactly when size / capacity, at the current capacity and at
\* the moment of its re-validation, exceeds the threshold; otherwise it
\* clears the flag and returns with table, lock array and capacity unchanged.
C17_Revalidation ==
  [][\A t \in Threads :
       (th[t].pc = "rf_rs_check" /\ th'[t].pc # "rf_rs_check") =>
         IF Policy(size, capacity)
         THEN th'[t].pc = "rf_rs_shared" /\ resizing_flag'
         ELSE /\ th'[t].pc = "done" /\ ~resizing_flag'
              /\ UNCHANGED <<table, locks, capacity>>]_vars
\* thread t holds its stripe lock and has computed its bucket index
InStripe(t) == th[t].pc \in {"st_chain", "st_count", "st_policy"}

\* C18: in the striped set the number of locks is the constructor's capacity
\* for ever, the capacity is that number times a power of two, and every
\* thread from its capacity read to its unlock holds lock (bucket index mod
\* number of locks), its bucket index being hash mod the capacity it read
\* under that lock, which is still the published capacity and the length of
\* the table; no two threads are at a chain operation on the same bucket.
C18_StripeMapping ==
  strategy = "striped" =>
    /\ num_of_locks = load.initial /\ Len(locks) = num_of_locks
    /\ \E k \in 0..capacity : capacity = num_of_locks * (2 ^ k)
    /\ \A t \in Threads :
         InStripe(t) =>
           /\ th[t].lock = th[t].bucket_idx % num_of_locks
           /\ locks[th[t].lock + 1] = t
           /\ th[t].bucket_idx = Hash(th[t].elem) % th[t].current_capacity
           /\ th[t].current_capacity = capacity /\ Len(table) = capacity
    /\ \A t, u \in Threads :
         (t # u /\ th[t].pc = "st_chain" /\ th[u].pc = "st_chain") =>
           th[t].bucket_idx # th[u].bucket_idx

C18_Witness ==
  \E t, u \in Threads :
    /\ t # u /\ strategy = "striped" /\ num_of_locks = 2 /\ capacity = 4
    /\ th[t].pc = "st_chain" /\ th[u].pc = "st_chain"
    /\ th[t].bucket_idx # th[u].bucket_idx
\* thread t is inside a call and cannot take a step: it waits for a lock
Blocked(t) == InFlight(t) /\ ~ENABLED Step(t)

\* C19: in the striped and refinable sets no reachable state has every
\* unfinished thread waiting for a lock.  An operation holds at most one
\* bucket or stripe lock and none when it enters resize; the striped
\* migration holds exactly the locks below the index it waits for (ascending
\* order); the refinable resizer holds at most the one lock of its sweep and
\* holds the lock array exclusively only with no bucket lock in hand.
C19_DeadlockFreedom ==
  strategy \in {"striped", "refinable"} =>
    /\ (\E t \in Threads : InFlight(t)) => \E t \in Threads : InFlight(t) /\ ~Blocked(t)
    /\ \A t \in Threads :
         /\ th[t].pc \in {"st_rs_lock", "st_rs_check", "st_rs_alloc", "st_rs_rehash",
                          "st_rs_store"} => HeldBy(t) = 1..th[t].i
         /\ th[t].pc \notin {"st_rs_lock", "st_rs_check", "st_rs_alloc", "st_rs_rehash",
                             "st_rs_store"} => Cardinality(HeldBy(t)) <= 1
         /\ th[t].pc \in {"rf_rs_cas", "rf_rs_check", "rf_rs_shared", "rf_rs_lockx",
                          "rf_rs_grow"} => HeldBy(t) = {}
         /\ locks_list_lock.writer = t => (th[t].pc = "rf_rs_grow" /\ locks_list_lock.readers = {})

C19_Witness ==
  \E t, u \in Threads :
    /\ t # u /\ strategy = "striped" /\ Blocked(t) /\ ~Blocked(u) /\ InFlight(u)
    /\ th[t].pc = "st_rs_lock" /\ th[t].i = 1 /\ locks[2] = u
    /\ th[u].pc = "st_policy"
C21_ExactlyOnce ==
  (strategy = "refinable" /\ Quiescent /\ ~resizing_flag) =>
    \A t, u \in Threads :
      (t # u /\ th[t].pc = "done" /\ th[u].pc = "done" /\ th[t].lost /\ th[u].lost
         /\ th[t].current_capacity = th[u].current_capacity) =>
        capacity >= 2 * th[t].current_capacity
\* what of C21 holds: the capacity check of a resize for capacity c, made
\* under the resize's exclusion, leads to the migration when the capacity is
\* still c and otherwise to the return with table and capacity untouched;
\* every change of the capacity is a doubling made by a resize called for
\* the capacity it doubles, so no capacity is doubled twice.
StaleResizeNoOp ==
  [][/\ \A t \in Threads :
          (th[t].pc \in {"st_rs_check", "rf_rs_check"} /\ th'[t].pc # th[t].pc) =>
            IF th[t].current_capacity # capacity
            THEN th'[t].pc = "done" /\ UNCHANGED <<table, capacity>>
                 /\ Len(locks') = Len(locks)
            ELSE th'[t].pc \in {"st_rs_alloc", "rf_rs_shared"}
     /\ (capacity' # capacity \/ Len(table') # Len(table)) =>
           \/ strategy \in {"sequential", "coarse"}
           \/ \E t \in Threads :
                /\ th[t].pc \in {"st_rs_alloc", "st_rs_store", "rf_rs_alloc", "rf_rs_store"}
                /\ th'[t].pc # th[t].pc
                /\ th[t].current_capacity = capacity
                /\ capacity' \in {capacity, 2 * capacity}
                /\ Len(table') = 2 * capacity]_vars
\* C22: in every reachable state of the refinable set the lock array and the
\* table are at least as long as the published capacity: the resizer stores
\* the new capacity with the new table and the grown lock array in place and
\* the flag still set, and clears the flag after that store.  So no access
\* is out of range: the index a call fetches its bucket lock with is inside
\* the lock array, and the index of its chain operation inside the table.
C22_PublicationOrder ==
  strategy = "refinable" =>
    /\ Len(locks) >= capacity /\ Len(table) >= capacity
    /\ ~ub
    /\ \A t \in Threads :
         /\ th[t].pc = "rf_getlock" =>
              (th[t].bucket_idx < Len(locks) /\ th[t].current_capacity <= capacity)
         /\ th[t].pc \in {"rf_lock", "rf_chkflag", "rf_chkcap"} => th[t].lock < Len(locks)
         /\ th[t].pc = "rf_chain" => th[t].bucket_idx < Len(table)
         /\ th[t].pc = "rf_rs_store" =>
              /\ Len(table) = th[t].new_capacity /\ Len(locks) = th[t].new_capacity
              /\ capacity = th[t].current_capacity /\ resizing_flag
         /\ th[t].pc = "rf_rs_clear" => (capacity = th[t].new_capacity /\ resizing_flag)

C22_Witness ==
  \E t, u \in Threads :
    /\ t # u /\ th[t].pc = "rf_rs_store" /\ capacity = 1
    /\ Len(locks) = 2 /\ Len(table) = 2
    /\ th[u].pc = "rf_getlock" /\ th[u].bucket_idx = 0
====
